---- MODULE Spec2Model ----
(***************************************************************************)
(* State-machine model of the EBYTE E32 LoRa driver, class ebyteE32 of     *)
(* src/loraE32.py (MicroPython).                                           *)
(*                                                                         *)
(* Every public method of the class is one action.  The methods are        *)
(* translated as operators on a record `self` (the instance attributes     *)
(* plus the log of the hardware events of the running call); an operator   *)
(* returns [self, ret, exc]: the instance after the method, its return     *)
(* value, and whether it left by an exception.                             *)
(*                                                                         *)
(* Python values:                                                          *)
(*   - bit strings ('{0:08b}'.format, the '0b...' strings) are sequences   *)
(*     of the digits 0 and 1;                                              *)
(*   - int('0b...') parses the digits in base 2 (the port's int() handles  *)
(*     the 0b prefix: encodeConfig's documented result                     *)
(*     [192, 0, 1, 26, 4, 68] in src/loraE32cp.py:555 depends on it);      *)
(*     int('101') of a string without prefix reads the digits in base 10;  *)
(*   - None for a string-valued field is the string "None";                *)
(*   - config['channel'] is an int, or the str hex(n) that calcFrequency   *)
(*     stores: channel holds n and channel_is_str tells which;             *)
(*   - bytes(list) raises unless every element is an int in 0..255.        *)
(***************************************************************************)
EXTENDS Integers, Sequences, FiniteSets, TLC

VARIABLES
    config,     \* self.config
    M0,         \* value of pin M0, NoPin while self.M0 is None
    M1,         \* value of pin M1, NoPin while self.M1 is None
    serdev,     \* self.serdev: "None", "open" (UART), "deleted" (after del)
    debug,      \* self.debug
    snapshot,   \* E32config.json: <<>> while absent, else <<config record>>
    log,        \* hardware events of the last call, in order
    call,       \* the last call: method, arguments and inputs
    ret,        \* its return value
    entry,      \* config and snapshot at the entry of the last call
    cs_in,      \* checksum specification: the serialized payload text
    cs_out,     \* checksum specification: the text with its checksum byte appended
    link        \* link specification: the bytes a sender's frame puts on the
                \* receiver's serial link, the payload sent, whether a byte was altered

vars == <<config, M0, M1, serdev, debug, snapshot, log, call, ret, entry, cs_in, cs_out, link>>

-----------------------------------------------------------------------------
(* Bounds of the model *)

\* longest text given to calcChecksum in the checksum specification
MaxTextLen == 3

-----------------------------------------------------------------------------
(* Python helpers *)

NoPin == 0 - 1
NotAnInt == 0 - 1          \* a list element bytes() cannot convert

RECURSIVE SumSeq(_)
SumSeq(s) == IF s = <<>> THEN 0 ELSE s[1] + SumSeq(Tail(s))

RECURSIVE BinDigits(_)
\* the binary digits of n >= 0, most significant first, '' for 0
BinDigits(n) == IF n = 0 THEN <<>> ELSE Append(BinDigits(n \div 2), n % 2)

RECURSIVE ZeroFill(_, _)
ZeroFill(s, width) == IF Len(s) >= width THEN s ELSE ZeroFill(<<0>> \o s, width)

\* '{0:0<width>b}'.format(n): at least width digits, more when n needs more
FormatBin(n, width) == ZeroFill(BinDigits(n), width)

RECURSIVE DigitsValue(_, _)
\* value of a digit string read in the given base
DigitsValue(s, base) ==
    IF s = <<>> THEN 0 ELSE DigitsValue(SubSeq(s, 1, Len(s) - 1), base) * base + s[Len(s)]

\* int('0b' + digits)
IntBin(s) == DigitsValue(s, 2)
\* int(digits) of a string of 0/1 digits without prefix
IntDec(s) == DigitsValue(s, 10)

\* bytes(list) succeeds
BytesOK(m) == \A i \in 1..Len(m) : m[i] \in 0..255

-----------------------------------------------------------------------------
(* Class tables *)

PORT == {"U1", "U2"}
PARSTR == [p \in {"8N1", "8O1", "8E1"} |->
             CASE p = "8N1" -> <<0, 0>> [] p = "8O1" -> <<0, 1>> [] p = "8E1" -> <<1, 0>>]
PARINV(bits) == IF \E p \in DOMAIN PARSTR : PARSTR[p] = bits
                THEN CHOOSE p \in DOMAIN PARSTR : PARSTR[p] = bits ELSE "None"
BAUDRATE == [b \in {1200, 2400, 4800, 9600, 19200, 38400, 57600, 115200} |->
               CASE b = 1200 -> <<0, 0, 0>> [] b = 2400 -> <<0, 0, 1>>
                 [] b = 4800 -> <<0, 1, 0>> [] b = 9600 -> <<0, 1, 1>>
                 [] b = 19200 -> <<1, 0, 0>> [] b = 38400 -> <<1, 0, 1>>
                 [] b = 57600 -> <<1, 1, 0>> [] b = 115200 -> <<1, 1, 1>>]
BAUDRINV(bits) == CHOOSE b \in DOMAIN BAUDRATE : BAUDRATE[b] = bits
DATARATE == [r \in {"0.3k", "1.2k", "2.4k", "4.8k", "9.6k", "19.2k"} |->
               CASE r = "0.3k" -> <<0, 0, 0>> [] r = "1.2k" -> <<0, 0, 1>>
                 [] r = "2.4k" -> <<0, 1, 0>> [] r = "4.8k" -> <<0, 1, 1>>
                 [] r = "9.6k" -> <<1, 0, 0>> [] r = "19.2k" -> <<1, 0, 1>>]
DATARINV(bits) == IF \E r \in DOMAIN DATARATE : DATARATE[r] = bits
                  THEN CHOOSE r \in DOMAIN DATARATE : DATARATE[r] = bits ELSE "None"
\* mutant: getVersion is given the opcode of getConfig
CMDS_VersionAsConfig == [c \in {"setConfigPwrDwnSave", "getConfig", "setConfigPwrDwnNoSave", "getVersion", "reset"} |->
           CASE c = "setConfigPwrDwnSave" -> 192 [] c = "getConfig" -> 193
             [] c = "setConfigPwrDwnNoSave" -> 194 [] c = "getVersion" -> 193
             [] c = "reset" -> 196]
CMDS == [c \in {"setConfigPwrDwnSave", "getConfig", "setConfigPwrDwnNoSave", "getVersion", "reset"} |->
           CASE c = "setConfigPwrDwnSave" -> 192 [] c = "getConfig" -> 193
             [] c = "setConfigPwrDwnNoSave" -> 194 [] c = "getVersion" -> 195
             [] c = "reset" -> 196]
\* mutant: the patterns of wakeup and powersave exchanged
OPERMODE_Swapped == [m \in {"normal", "wakeup", "powersave", "sleep"} |->
                       CASE m = "normal" -> <<0, 0>> [] m = "wakeup" -> <<0, 1>>
                         [] m = "powersave" -> <<1, 0>> [] m = "sleep" -> <<1, 1>>]
OPERMODE == [m \in {"normal", "wakeup", "powersave", "sleep"} |->
               CASE m = "normal" -> <<0, 0>> [] m = "wakeup" -> <<1, 0>>
                 [] m = "powersave" -> <<0, 1>> [] m = "sleep" -> <<1, 1>>]
\* FREQ[int(model.split('T')[0])]: [min, nominal, max] in MHz
FREQ == [k \in {170, 400, 433, 868, 915} |->
           CASE k = 170 -> <<160, 170, 173>> [] k = 400 -> <<410, 470, 525>>
             [] k = 433 -> <<410, 433, 441>> [] k = 868 -> <<862, 868, 893>>
             [] k = 915 -> <<900, 915, 931>>]
\* the keys of TXPOWER
TXPOWER == 0..3

\* int(self.config['model'].split('T')[0]) for the model strings of the model
FreqKey(model) == CASE model = "868T20D" -> 868 [] model = "170T20D" -> 170
                    [] model = "400T20D" -> 400 [] model = "433T20D" -> 433
                    [] model = "915T20D" -> 915

-----------------------------------------------------------------------------
(* Results of methods, return values, hardware events *)

\* what a method call leaves: the instance, the value returned, raised or not
R(self, retval, exc) == [self |-> self, ret |-> retval, exc |-> exc]

\* return values: "OK" / "NOK", None, {'msg': None}, the corrupt-message
\* dictionary with its checksum, or the value ujson.loads returned (kind "dict"
\* with its items, kind "str" with its characters)
RetStr(s) == [kind |-> s, cs |-> 0, val |-> <<>>]
OK == RetStr("OK")
NOK == RetStr("NOK")
RetNone == RetStr("None")
\* mutant: no data is reported as a failure
RetEmptyMsg_Nok == RetStr("NOK")
RetEmptyMsg == RetStr("msg:None")
RetCorrupt(cs) == [kind |-> "msg:corrupt", cs |-> cs, val |-> <<>>]
RetJson(type, v) == [kind |-> type, cs |-> 0, val |-> v]

\* the value sendCommand returns: bytes read, None, or a str ('' or "NOK")
ResBytes(b) == [kind |-> "bytes", data |-> b]
ResNone == [kind |-> "None", data |-> <<>>]
ResStr(chars) == [kind |-> "str", data |-> chars]
StrNOK == <<78, 79, 75>>

\* one hardware event: a pin written (ev "M0"/"M1", data <<value>>), a sleep
\* (n ms), a UART write or read (data the bytes; n = NoData for a read that
\* returned None), a poll of AUX (data <<value>>); by is the method doing it
NoData == 0 - 1
Ev(ev, by, data, n) == [ev |-> ev, by |-> by, data |-> data, n |-> n]
Logged(self, e) == [self EXCEPT !.log = Append(self.log, e)]

-----------------------------------------------------------------------------
(* Mode controller *)

\* mutant: the mode lines are written and the settle delay is left out
setOperationMode_NoSettle(self, mode) ==
    LET bits == IF mode \in DOMAIN OPERMODE THEN OPERMODE[mode] ELSE <<0, 0>>
    IN  IF self.M0 = NoPin THEN R(self, RetNone, TRUE)
        ELSE LET s1 == Logged([self EXCEPT !.M0 = bits[1]],
                              Ev("M0", "setOperationMode", <<bits[1]>>, 0))
                 s2 == Logged([s1 EXCEPT !.M1 = bits[2]],
                              Ev("M1", "setOperationMode", <<bits[2]>>, 0))
             IN  R(s2, RetNone, FALSE)

\* setOperationMode(mode): M0, M1 from OPERMODE, then utime.sleep_ms(50);
\* raises AttributeError on self.M0.value while self.M0 is None
setOperationMode(self, mode) ==
    LET bits == IF mode \in DOMAIN OPERMODE THEN OPERMODE[mode] ELSE <<0, 0>>
    IN  IF self.M0 = NoPin THEN R(self, RetNone, TRUE)
        ELSE LET s1 == Logged([self EXCEPT !.M0 = bits[1]],
                              Ev("M0", "setOperationMode", <<bits[1]>>, 0))
                 s2 == Logged([s1 EXCEPT !.M1 = bits[2]],
                              Ev("M1", "setOperationMode", <<bits[2]>>, 0))
                 s3 == Logged(s2, Ev("sleep", "setOperationMode", <<>>, 50))
             IN  R(s3, RetNone, FALSE)

RECURSIVE IdleLoop_NoLimit(_, _, _)
\* mutant: the loop polls until AUX reads high, without the limit of 10
IdleLoop_NoLimit(self, count, lows) ==
    IF lows = 0
    THEN Logged(self, Ev("AUX", "waitForDeviceIdle", <<1>>, 0))
    ELSE IdleLoop_NoLimit(
             Logged(Logged(self, Ev("AUX", "waitForDeviceIdle", <<0>>, 0)),
                    Ev("sleep", "waitForDeviceIdle", <<>>, 10)),
             count + 1, lows - 1)

RECURSIVE IdleLoop(_, _, _)
\* the while loop of waitForDeviceIdle with count polls done; lows is the
\* number of polls that will still read AUX low before it reads high
IdleLoop(self, count, lows) ==
    IF lows = 0
    THEN Logged(self, Ev("AUX", "waitForDeviceIdle", <<1>>, 0))
    ELSE LET s1 == Logged(self, Ev("AUX", "waitForDeviceIdle", <<0>>, 0))
         IN  IF count + 1 = 10 THEN s1
             ELSE IdleLoop(Logged(s1, Ev("sleep", "waitForDeviceIdle", <<>>, 10)),
                           count + 1, lows - 1)

waitForDeviceIdle(self, lows) == R(IdleLoop(self, 0, lows), RetNone, FALSE)

-----------------------------------------------------------------------------
(* Configuration register codec *)

\* mutant: the low address byte is put before the high one
encodeConfig_LowByteFirst(self) ==
    LET c == self.config
    IN  IF \/ c.parity \notin DOMAIN PARSTR
           \/ c.baudrate \notin DOMAIN BAUDRATE
           \/ c.datarate \notin DOMAIN DATARATE
        THEN R(self, <<>>, TRUE)
        ELSE R(self,
               << 192,
                  c.address % 256,
                  c.address \div 256,
                  IntBin(PARSTR[c.parity] \o BAUDRATE[c.baudrate] \o DATARATE[c.datarate]),
                  IF c.channel_is_str THEN NotAnInt ELSE c.channel,
                  IntBin(<<c.transmode>> \o <<c.iomode>> \o FormatBin(c.wutime, 3)
                         \o <<c.fec>> \o FormatBin(c.txpower, 2)) >>,
               FALSE)

\* encodeConfig(): the list of 6 elements, or an exception when a table
\* lookup returns None (str + None).  The channel element is NotAnInt when
\* config['channel'] is a str; self.config is only read.
encodeConfig(self) ==
    LET c == self.config
    IN  IF \/ c.parity \notin DOMAIN PARSTR
           \/ c.baudrate \notin DOMAIN BAUDRATE
           \/ c.datarate \notin DOMAIN DATARATE
        THEN R(self, <<>>, TRUE)
        ELSE R(self,
               << 192,
                  c.address \div 256,
                  c.address % 256,
                  IntBin(PARSTR[c.parity] \o BAUDRATE[c.baudrate] \o DATARATE[c.datarate]),
                  IF c.channel_is_str THEN NotAnInt ELSE c.channel,
                  IntBin(<<c.transmode>> \o <<c.iomode>> \o FormatBin(c.wutime, 3)
                         \o <<c.fec>> \o FormatBin(c.txpower, 2)) >>,
               FALSE)

\* decodeConfig(message) for a message of 6 bytes: overwrites the register
\* fields of self.config; int(bits[a:b]) reads the binary digits in base 10
decodeConfig(self, message) ==
    LET b3 == FormatBin(message[4], 8)
        b5 == FormatBin(message[6], 8)
    IN  [self EXCEPT !.config =
            [self.config EXCEPT
                !.address = message[2] * 256 + message[3],
                !.parity = PARINV(SubSeq(b3, 1, 2)),
                !.baudrate = BAUDRINV(SubSeq(b3, 3, 5)),
                !.datarate = DATARINV(SubSeq(b3, 6, 8)),
                !.channel = message[5],
                !.channel_is_str = FALSE,
                !.transmode = IntDec(SubSeq(b5, 1, 1)),
                !.iomode = IntDec(SubSeq(b5, 2, 2)),
                !.wutime = IntDec(SubSeq(b5, 3, 5)),
                !.fec = IntDec(SubSeq(b5, 6, 6)),
                !.txpower = IntDec(SubSeq(b5, 7, 8))]]

\* showConfig() only prints; it raises TypeError on '0x%02x' % str and on
\* TXPOWER.get(txpower)[maxp] when txpower is not a key of TXPOWER
showConfig(self) ==
    R(self, RetNone, self.config.channel_is_str \/ self.config.txpower \notin TXPOWER)

\* saveConfigToJson(): E32config.json is rewritten with self.config
saveConfigToJson(self) == [self EXCEPT !.snapshot = <<self.config>>]

-----------------------------------------------------------------------------
(* Command channel *)

\* what serdev.read() returns for the device's answer resp: nothing, the
\* bytes just written echoed back, or the bytes resp.data
ReadOf(resp, written) ==
    CASE resp.kind = "none" -> ResNone
      [] resp.kind = "echo" -> ResBytes(written)
      [] resp.kind = "bytes" -> ResBytes(resp.data)

ReadEv(by, res) == Ev("read", by, res.data, IF res.kind = "None" THEN NoData ELSE 0)

\* the body of sendCommand after self.setOperationMode('sleep') has left m;
\* ret is the method's result value
sendCommandIn(self, command, resp, m) ==
    LET enc == encodeConfig(m.self)
        HexCmd == IF CMDS[command] \in {192, 194}
                  THEN [enc.ret EXCEPT ![1] = CMDS[command]]
                  ELSE <<CMDS[command], CMDS[command], CMDS[command]>>
        raised == \/ m.exc
                  \/ CMDS[command] \in {192, 194} /\ enc.exc
                  \/ m.self.serdev # "open"
                  \/ ~BytesOK(HexCmd)
        s1 == Logged(m.self, Ev("write", "sendCommand", HexCmd, 0))
        s2 == Logged(s1, Ev("sleep", "sendCommand", <<>>, 50))
        res == ReadOf(resp, HexCmd)
        s3 == Logged(Logged(s2, ReadEv("sendCommand", res)),
                     Ev("sleep", "sendCommand", <<>>, 50))
    IN  IF raised THEN R(IF m.exc THEN self ELSE m.self, ResStr(StrNOK), FALSE)
        ELSE IF command = "reset" THEN R(s2, ResStr(<<>>), FALSE)
        ELSE R(s3, res, FALSE)

\* sendCommand(command)
sendCommand(self, command, resp) ==
    sendCommandIn(self, command, resp, setOperationMode(self, "sleep"))

\* the body of setConfig after result = self.sendCommand(save_cmd) has left c
setConfigOf(self, c) ==
    LET result == c.ret
        dec == decodeConfig(c.self, result.data)
        shown == showConfig(dec)
    IN  IF result.kind = "None" THEN R(c.self, NOK, FALSE)      \* len(None) raises
        ELSE IF Len(result.data) # 6 THEN R(c.self, NOK, FALSE)
        ELSE IF self.debug
             THEN IF shown.exc THEN R(dec, NOK, FALSE)
                  ELSE R(saveConfigToJson(dec), OK, FALSE)
             ELSE R(saveConfigToJson(c.self), OK, FALSE)

\* setConfig(save_cmd)
setConfig(self, save_cmd, resp) == setConfigOf(self, sendCommand(self, save_cmd, resp))

\* setTransmissionMode(transmode)
setTransmissionMode(self, transmode, resp) ==
    IF transmode # self.config.transmode
    THEN R(setConfig([self EXCEPT !.config.transmode = transmode],
                     "setConfigPwrDwnSave", resp).self, RetNone, FALSE)
    ELSE R(self, RetNone, FALSE)

-----------------------------------------------------------------------------
(* Checksum *)

\* the character of a hexadecimal digit, upper case
HexChar(d) == IF d < 10 THEN 48 + d ELSE 55 + d

\* '%2X' % v: upper-case hexadecimal, padded on the left with a space to width 2
FormatHex2(v) == IF v < 16 THEN <<32, HexChar(v)>>
                 ELSE <<HexChar(v \div 16), HexChar(v % 16)>>

\* mutant: the checksum text is read as zero
IntHex_Zero(s) == 0 * Len(s)

RECURSIVE IntHex(_)
\* int(s, 16) of a string FormatHex2 produced: white space is skipped
IntHex(s) ==
    IF s = <<>> THEN 0
    ELSE LET c == s[Len(s)]
             rest == SubSeq(s, 1, Len(s) - 1)
         IN  IF c = 32 THEN IntHex(rest)
             ELSE IntHex(rest) * 16 + (IF c >= 65 THEN c - 55 ELSE c - 48)

\* mutant: the one's complement of the sum instead of the two's complement
calcChecksum_OnesComplement(payload) == FormatHex2(255 - (SumSeq(payload) % 256))

\* calcChecksum(payload): '%2X' % (-(sum(ord(c) for c in payload) % 256) & 0xFF);
\* -x & 0xFF of an x in 0..255 is (256 - x) % 256
calcChecksum(payload) == FormatHex2((256 - (SumSeq(payload) % 256)) % 256)

\* mutant: the checksum is computed over the frame, its prefix included
appendChecksum_OverFrame(msg, js_payload) == Append(msg, IntHex(calcChecksum(msg)))

\* msg.append(int(self.calcChecksum(js_payload), 16)) of sendMessage
appendChecksum(msg, js_payload) == Append(msg, IntHex(calcChecksum(js_payload)))

-----------------------------------------------------------------------------
(* ujson: payloads are dictionaries of str keys and str values, given as    *)
(* the sequence of their <<key, value>> items in iteration order; a str is  *)
(* the sequence of its character codes                                      *)

RECURSIVE Escaped(_)
\* the characters of a str as dumps prints them between the quotes: a quote
\* and a backslash are preceded by a backslash (characters from 32 up)
Escaped(str) ==
    IF str = <<>> THEN <<>>
    ELSE (IF str[1] \in {34, 92} THEN <<92, str[1]>> ELSE <<str[1]>>) \o Escaped(Tail(str))

\* mutant: the characters are printed as they are
Quoted_Raw(str) == <<34>> \o str \o <<34>>

Quoted(str) == <<34>> \o Escaped(str) \o <<34>>

RECURSIVE DumpItems(_)
DumpItems(items) ==
    IF items = <<>> THEN <<>>
    ELSE Quoted(items[1][1]) \o <<58, 32>> \o Quoted(items[1][2])
         \o (IF Len(items) > 1 THEN <<44, 32>> ELSE <<>>) \o DumpItems(Tail(items))

\* ujson.dumps(dict): '{"k": "v", "k2": "v2"}'
dumps(items) == <<123>> \o DumpItems(items) \o <<125>>

\* the dictionary a sequence of items denotes (a later item replaces an
\* earlier one of the same key)
RECURSIVE DictOf(_)
DictOf(items) ==
    IF items = <<>> THEN <<>>
    ELSE LET last == items[Len(items)]
             before == DictOf(SubSeq(items, 1, Len(items) - 1))
             kept == SelectSeq(before, LAMBDA it : it[1] # last[1])
         IN  Append(kept, last)

\* two item sequences denote the same dictionary
SameDict(a, b) == {a[i] : i \in 1..Len(a)} = {b[i] : i \in 1..Len(b)}

RECURSIVE SkipWs(_, _)
SkipWs(s, i) == IF i <= Len(s) /\ s[i] = 32 THEN SkipWs(s, i + 1) ELSE i

RECURSIVE StrEnd(_, _)
\* index of the quote closing the string whose first character is at i, 0 if
\* there is none or a character the parser rejects inside a string comes first
StrEnd(s, i) ==
    IF i > Len(s) THEN 0
    ELSE IF s[i] = 34 THEN i
    ELSE IF s[i] < 32 THEN 0
    ELSE IF s[i] = 92
         THEN IF i + 1 <= Len(s) /\ s[i + 1] \in {34, 92, 47} THEN StrEnd(s, i + 2) ELSE 0
    ELSE StrEnd(s, i + 1)

RECURSIVE Unescaped(_)
\* the characters between the quotes with \" \\ and \/ replaced by the
\* character escaped
Unescaped(str) ==
    IF str = <<>> THEN <<>>
    ELSE IF str[1] = 92 /\ Len(str) >= 2 THEN <<str[2]>> \o Unescaped(SubSeq(str, 3, Len(str)))
    ELSE <<str[1]>> \o Unescaped(Tail(str))

\* a JSON string starting at s[i]: [ok, val, next]
ParseString(s, i) ==
    IF i > Len(s) \/ s[i] # 34 \/ StrEnd(s, i + 1) = 0
    THEN [ok |-> FALSE, val |-> <<>>, next |-> i]
    ELSE [ok |-> TRUE, val |-> Unescaped(SubSeq(s, i + 1, StrEnd(s, i + 1) - 1)),
          next |-> StrEnd(s, i + 1) + 1]

RECURSIVE ParseMembers(_, _, _)
\* the members of an object from s[i], after '{' or ',': [ok, val, next]
ParseMembers(s, i, acc) ==
    LET k == ParseString(s, SkipWs(s, i))
        colon == SkipWs(s, k.next)
        v == ParseString(s, SkipWs(s, colon + 1))
        after == SkipWs(s, v.next)
        bad == [ok |-> FALSE, val |-> <<>>, next |-> i]
    IN  IF ~k.ok \/ colon > Len(s) \/ s[colon] # 58 THEN bad
        ELSE IF ~v.ok \/ after > Len(s) THEN bad
        ELSE IF s[after] = 125
             THEN [ok |-> TRUE, val |-> Append(acc, <<k.val, v.val>>), next |-> after + 1]
        ELSE IF s[after] = 44
             THEN ParseMembers(s, after + 1, Append(acc, <<k.val, v.val>>))
        ELSE bad

\* ujson.loads(text): the value parsed, or ValueError (exc).  Exact for the
\* texts whose JSON values are strings and objects of string members, over
\* the characters of dumps' results (braces, quote, colon, comma, space, the
\* characters of keys and values, the escapes of quote, backslash and
\* slash) and bytes that begin no JSON value.  type
\* is "dict" (ret the items of the dictionary) or "str" (ret the characters).
loads(text) ==
    LET i == SkipWs(text, 1)
        empty == SkipWs(text, i + 1)
        m == ParseMembers(text, i + 1, <<>>)
        str == ParseString(text, i)
        bad == [type |-> "dict", ret |-> <<>>, exc |-> TRUE]
    IN  IF i > Len(text) THEN bad
        ELSE IF text[i] = 34
             THEN IF str.ok /\ SkipWs(text, str.next) > Len(text)
                  THEN [type |-> "str", ret |-> str.val, exc |-> FALSE] ELSE bad
        ELSE IF text[i] # 123 THEN bad
        ELSE IF empty <= Len(text) /\ text[empty] = 125
             THEN IF SkipWs(text, empty + 1) > Len(text)
                  THEN [type |-> "dict", ret |-> <<>>, exc |-> FALSE] ELSE bad
        ELSE IF m.ok /\ SkipWs(text, m.next) > Len(text)
             THEN [type |-> "dict", ret |-> DictOf(m.val), exc |-> FALSE]
        ELSE bad

-----------------------------------------------------------------------------
(* Payload transport *)

\* the target is the module's own address and channel (an int never equals
\* the str channel calcFrequency may have stored)
OwnTarget(self, address, channel) ==
    /\ address = self.config.address
    /\ ~self.config.channel_is_str
    /\ channel = self.config.channel

\* mutant: a wait that ended with AUX still low makes the call fail
sendFrame_NokWhenBusy(to_address, to_channel, payload, useChecksum, lows, m) ==
    LET js_payload == dumps(payload.items)
        body == (IF m.self.config.transmode = 1
                 THEN <<to_address \div 256, to_address % 256, to_channel>> ELSE <<>>)
                \o js_payload
        msg == IF useChecksum THEN appendChecksum(body, js_payload) ELSE body
        w == waitForDeviceIdle(m.self, lows)
    IN  IF m.exc THEN R(m.self, NOK, FALSE)
        ELSE IF ~payload.isdict THEN R(m.self, NOK, FALSE)
        ELSE IF w.self.serdev # "open" \/ ~BytesOK(msg) THEN R(w.self, NOK, FALSE)
        ELSE IF lows >= 10 THEN R(w.self, NOK, FALSE)
        ELSE R(Logged(w.self, Ev("write", "sendMessage", msg, 0)), OK, FALSE)

\* the body of sendMessage after self.setOperationMode('wakeup') has left m
\* (an exception of setOperationMode leaves the object as it found it);
\* payload is [isdict, items], lows the number of AUX polls that read low
sendFrame(to_address, to_channel, payload, useChecksum, lows, m) ==
    LET js_payload == dumps(payload.items)
        body == (IF m.self.config.transmode = 1
                 THEN <<to_address \div 256, to_address % 256, to_channel>> ELSE <<>>)
                \o js_payload
        msg == IF useChecksum THEN appendChecksum(body, js_payload) ELSE body
        w == waitForDeviceIdle(m.self, lows)
    IN  IF m.exc THEN R(m.self, NOK, FALSE)
        ELSE IF ~payload.isdict THEN R(m.self, NOK, FALSE)
        ELSE IF w.self.serdev # "open" \/ ~BytesOK(msg) THEN R(w.self, NOK, FALSE)
        ELSE R(Logged(w.self, Ev("write", "sendMessage", msg, 0)), OK, FALSE)

\* sendMessage(to_address, to_channel, payload, useChecksum); resp is the
\* device's answer to a set-config command
sendMessage(self, to_address, to_channel, payload, useChecksum, resp, lows) ==
    sendFrame(to_address, to_channel, payload, useChecksum, lows,
              setOperationMode(
                  setTransmissionMode(self,
                      IF OwnTarget(self, to_address, to_channel) THEN 0 ELSE 1,
                      resp).self,
                  "wakeup"))

\* mutant: the checksum byte is left in the text that is parsed
recvFrame_NotStripped(useChecksum, rx, m) ==
    LET js_payload == ReadOf(rx, <<>>)
        s1 == Logged(m.self, ReadEv("recvMessage", js_payload))
        msg == js_payload.data
        cs == IntHex(calcChecksum(msg))
        message == loads(msg)
    IN  IF m.exc \/ m.self.serdev # "open" THEN R(m.self, NOK, FALSE)
        ELSE IF js_payload.kind = "None" THEN R(s1, RetEmptyMsg, FALSE)
        ELSE IF useChecksum /\ cs # 0 THEN R(s1, RetCorrupt(cs), FALSE)
        ELSE IF message.exc THEN R(s1, NOK, FALSE)
        ELSE R(s1, RetJson(message.type, message.ret), FALSE)

\* mutant: text that cannot be parsed is reported as a corrupt message
recvFrame_DecodeErrorAsCorrupt(useChecksum, rx, m) ==
    LET js_payload == ReadOf(rx, <<>>)
        s1 == Logged(m.self, ReadEv("recvMessage", js_payload))
        msg == js_payload.data
        cs == IntHex(calcChecksum(msg))
        text == IF useChecksum THEN SubSeq(msg, 1, Len(msg) - 1) ELSE msg
        message == loads(text)
    IN  IF m.exc \/ m.self.serdev # "open" THEN R(m.self, NOK, FALSE)
        ELSE IF js_payload.kind = "None" THEN R(s1, RetEmptyMsg, FALSE)
        ELSE IF useChecksum /\ cs # 0 THEN R(s1, RetCorrupt(cs), FALSE)
        ELSE IF message.exc THEN R(s1, RetCorrupt(cs), FALSE)
        ELSE R(s1, RetJson(message.type, message.ret), FALSE)

\* the body of recvMessage after self.setOperationMode('normal') has left m;
\* rx is what the one serdev.read() returns (kind "none" or "bytes")
recvFrame(useChecksum, rx, m) ==
    LET js_payload == ReadOf(rx, <<>>)
        s1 == Logged(m.self, ReadEv("recvMessage", js_payload))
        msg == js_payload.data
        cs == IntHex(calcChecksum(msg))
        text == IF useChecksum THEN SubSeq(msg, 1, Len(msg) - 1) ELSE msg
        message == loads(text)
    IN  IF m.exc \/ m.self.serdev # "open" THEN R(m.self, NOK, FALSE)
        ELSE IF js_payload.kind = "None" THEN R(s1, RetEmptyMsg, FALSE)
        ELSE IF useChecksum /\ cs # 0 THEN R(s1, RetCorrupt(cs), FALSE)
        ELSE IF message.exc THEN R(s1, NOK, FALSE)
        ELSE R(s1, RetJson(message.type, message.ret), FALSE)

\* recvMessage(from_address, from_channel, useChecksum)
recvMessage(self, from_address, from_channel, useChecksum, resp, rx) ==
    recvFrame(useChecksum, rx,
              setOperationMode(
                  setTransmissionMode(self,
                      IF OwnTarget(self, from_address, from_channel) THEN 0 ELSE 1,
                      resp).self,
                  "normal"))

-----------------------------------------------------------------------------
(* Construction, start, stop and the command operations *)

\* calcFrequency(): on a frequency above the band, frequency is the band's
\* maximum and channel becomes the str hex(maxfreq - minfreq)
calcFrequency(self) ==
    LET minfreq == FREQ[FreqKey(self.config.model)][1]
        maxfreq == FREQ[FreqKey(self.config.model)][3]
        freq == minfreq + self.config.channel
    IN  IF freq > maxfreq
        THEN [self EXCEPT !.config.frequency = maxfreq,
                          !.config.channel = maxfreq - minfreq,
                          !.config.channel_is_str = TRUE]
        ELSE [self EXCEPT !.config.frequency = freq]

\* __init__(PinM0, PinM1, PinAUX, Model, Port, Baudrate, Parity, AirDataRate,
\*          Address, Channel, debug)
init(Model, Port, Baudrate, Parity, AirDataRate, Address, Channel, dbg) ==
    LET s0 == [config |-> [model |-> Model, port |-> Port, baudrate |-> Baudrate,
                           parity |-> Parity, datarate |-> AirDataRate,
                           address |-> Address, channel |-> Channel,
                           channel_is_str |-> FALSE, frequency |-> 0,
                           transmode |-> 0, iomode |-> 1, wutime |-> 0,
                           fec |-> 1, txpower |-> 0],
               M0 |-> NoPin, M1 |-> NoPin, serdev |-> "None", debug |-> dbg,
               snapshot |-> <<>>, log |-> <<>>]
        s1 == calcFrequency(s0)
    IN  [s1 EXCEPT !.config.transmode = 0, !.config.iomode = 1, !.config.wutime = 0,
                   !.config.fec = 1, !.config.txpower = 0]

\* start(): the parameter checks, the UART and the pins, then setConfig,
\* whose result is not looked at
start(self, resp) ==
    LET c == self.config
        checked == [self EXCEPT
            !.config.port = IF c.port \notin PORT THEN "U1" ELSE c.port,
            !.config.baudrate = IF c.baudrate \notin DOMAIN BAUDRATE THEN 9600 ELSE c.baudrate,
            !.config.parity = IF c.parity \notin DOMAIN PARSTR THEN "8N1" ELSE c.parity,
            !.config.datarate = IF c.datarate \notin DOMAIN DATARATE THEN "2.4k" ELSE c.datarate]
        clamped == IF c.channel > 31 THEN [checked EXCEPT !.config.channel = 31] ELSE checked
        bound == [clamped EXCEPT !.serdev = "open",
                                 !.M0 = IF self.M0 = NoPin THEN 0 ELSE self.M0,
                                 !.M1 = IF self.M1 = NoPin THEN 0 ELSE self.M1]
    IN  IF c.channel_is_str THEN R(checked, NOK, FALSE)     \* str > int raises
        ELSE R(setConfig(bound, "setConfigPwrDwnSave", resp).self, OK, FALSE)

\* mutant: the UART is deinitialised and the attribute is set to None
stop_AttributeKept(self) ==
    CASE self.serdev = "None" -> R(self, OK, FALSE)
      [] self.serdev = "open" -> R([self EXCEPT !.serdev = "None"], OK, FALSE)
      [] self.serdev = "deleted" -> R(self, NOK, FALSE)

\* stop(): deinit and del self.serdev; a second stop finds no attribute
stop(self) ==
    CASE self.serdev = "None" -> R(self, OK, FALSE)
      [] self.serdev = "open" -> R([self EXCEPT !.serdev = "deleted"], OK, FALSE)
      [] self.serdev = "deleted" -> R(self, NOK, FALSE)

\* mutant: the normal mode is selected again after the command
reset_BackToNormal(self) ==
    R(setOperationMode(sendCommand(self, "reset", [kind |-> "none", data |-> <<>>]).self,
                       "normal").self, OK, FALSE)

\* reset(): the result of sendCommand is discarded
reset(self) == R(sendCommand(self, "reset", [kind |-> "none", data |-> <<>>]).self, OK, FALSE)

\* the keys of FREQV as byte values: hex(result[1]) in FREQV
FREQV == {50, 56, 69, 68, 70}

\* mutant: a version answer is followed by saving the configuration
getVersionOf_Saves(c) ==
    LET result == c.ret
    IN  IF result.kind = "None" THEN R(c.self, NOK, FALSE)
        ELSE IF Len(result.data) # 4 THEN R(c.self, NOK, FALSE)
        ELSE IF result.data[1] = 195 /\ result.data[2] \notin FREQV THEN R(c.self, NOK, FALSE)
        ELSE R(saveConfigToJson(c.self), OK, FALSE)

\* the body of getVersion after result = self.sendCommand('getVersion') has
\* left c: '%dMhz' % 'unknown' raises when the header is 0xC3 and the
\* frequency byte is not in FREQV
getVersionOf(c) ==
    LET result == c.ret
    IN  IF result.kind = "None" THEN R(c.self, NOK, FALSE)
        ELSE IF Len(result.data) # 4 THEN R(c.self, NOK, FALSE)
        ELSE IF result.data[1] = 195 /\ result.data[2] \notin FREQV THEN R(c.self, NOK, FALSE)
        ELSE R(c.self, OK, FALSE)

\* getVersion()
getVersion(self, resp) == getVersionOf(sendCommand(self, "getVersion", resp))

\* the body of getConfig after result = self.sendCommand('getConfig') has left c
getConfigOf(c) ==
    LET result == c.ret
        dec == decodeConfig(c.self, result.data)
    IN  IF result.kind = "None" THEN R(c.self, NOK, FALSE)
        ELSE IF Len(result.data) # 6 THEN R(c.self, NOK, FALSE)
        ELSE IF showConfig(dec).exc THEN R(dec, NOK, FALSE)
        ELSE R(dec, OK, FALSE)

\* mutant: the command is sent a second time
getConfig_Retry(self, resp) ==
    getConfigOf(sendCommand(sendCommand(self, "getConfig", resp).self, "getConfig", resp))

\* getConfig()
getConfig(self, resp) == getConfigOf(sendCommand(self, "getConfig", resp))

-----------------------------------------------------------------------------
(* Inputs of the model: constructor arguments, call arguments, and what the *)
(* device and the serial link answer                                        *)

Ctor(Model, Address, Channel) ==
    [Model |-> Model, Port |-> "U1", Baudrate |-> 9600, Parity |-> "8N1",
     AirDataRate |-> "2.4k", Address |-> Address, Channel |-> Channel]

\* the sensor node (0x0001, channel 2), and a 170 MHz module whose channel
\* lies above the band
Ctors == {Ctor("868T20D", 1, 2), Ctor("170T20D", 1, 20)}

\* (address, channel) arguments of sendMessage and recvMessage
Targets == {<<1, 2>>, <<3, 4>>}

\* payload arguments: the dictionary {'k': 'v'}, and a str (not a dictionary)
DictPayload(items) == [isdict |-> TRUE, items |-> items]
NotADict == [isdict |-> FALSE, items |-> <<>>]
Payloads == {DictPayload(<< <<<<107>>, <<118>>>> >>), NotADict}

NoAnswer == [kind |-> "none", data |-> <<>>]
Echo == [kind |-> "echo", data |-> <<>>]
Answer(bytes) == [kind |-> "bytes", data |-> bytes]

\* answers to a command: nothing, the command echoed (what the module answers
\* to a set-config command), a version answer (4 bytes), 4 bytes whose first
\* is not the version header, and two valid registers other than the one
\* sent: address 3, channel 4, transparent mode; address 1, channel 2, fixed
\* mode, TX power bits 10
CmdAnswers ==
    {NoAnswer, Echo, Answer(<<195, 69, 13, 20>>), Answer(<<193, 69, 13, 20>>),
     Answer(<<192, 0, 3, 26, 4, 68>>),
     Answer(<<192, 0, 1, 26, 2, 198>>)}

\* answers to getVersion: those above, and a version answer whose frequency
\* byte is no key of FREQV
VersionAnswers == CmdAnswers \cup {Answer(<<195, 0, 13, 20>>)}

\* what the read of recvMessage returns: nothing, the text of {'k': 'v'} with
\* its checksum byte, and the same with one byte altered
RxText == dumps(<< <<<<107>>, <<118>>>> >>)
RxAnswers ==
    {NoAnswer,
     Answer(RxText \o <<IntHex(calcChecksum(RxText))>>),
     Answer([RxText EXCEPT ![3] = 108] \o <<IntHex(calcChecksum(RxText))>>)}

\* numbers of AUX polls reading low before the line reads high; with 11 the
\* line stays low for as long as waitForDeviceIdle polls it
LowPolls == {0, 3, 11}

\* texts given to calcChecksum in the checksum specification
TextBytes == {0, 1, 16, 255}
Texts == UNION {[1..n -> TextBytes] : n \in 0..MaxTextLen}

-----------------------------------------------------------------------------
(* The state machine *)

Self == [config |-> config, M0 |-> M0, M1 |-> M1, serdev |-> serdev,
         debug |-> debug, snapshot |-> snapshot, log |-> <<>>]

Entry == [config |-> config, snapshot |-> snapshot]

Call(op, address, channel, payload, useChecksum, cmd) ==
    [op |-> op, address |-> address, channel |-> channel, payload |-> payload,
     useChecksum |-> useChecksum, cmd |-> cmd]
NoCall == Call("__init__", 0, 0, NotADict, FALSE, "")

\* the state after a call that left r
Returns(r, c) ==
    /\ config' = r.self.config
    /\ M0' = r.self.M0
    /\ M1' = r.self.M1
    /\ serdev' = r.self.serdev
    /\ snapshot' = r.self.snapshot
    /\ log' = r.self.log
    /\ ret' = r.ret
    /\ call' = c
    /\ entry' = Entry
    /\ UNCHANGED <<debug, cs_in, cs_out, link>>

Constructed(a, dbg) ==
    LET s == init(a.Model, a.Port, a.Baudrate, a.Parity, a.AirDataRate,
                  a.Address, a.Channel, dbg)
    IN  /\ config = s.config
        /\ M0 = s.M0
        /\ M1 = s.M1
        /\ serdev = s.serdev
        /\ debug = s.debug
        /\ snapshot = s.snapshot
        /\ log = <<>>
        /\ call = NoCall
        /\ ret = RetNone
        /\ entry = [config |-> s.config, snapshot |-> s.snapshot]

\* nothing is on the link
NoLink == [kind |-> "none", sent |-> <<>>, checksummed |-> FALSE, bytes |-> <<>>]

Init ==
    /\ \E a \in Ctors, dbg \in BOOLEAN : Constructed(a, dbg)
    /\ cs_in = <<>>
    /\ cs_out = <<>>
    /\ link = NoLink

Start ==
    \E resp \in CmdAnswers :
        Returns(start(Self, resp), Call("start", 0, 0, NotADict, FALSE, ""))

Stop == Returns(stop(Self), Call("stop", 0, 0, NotADict, FALSE, ""))

\* the device answers a command only when one is sent, and AUX is polled only
\* when a frame is about to be written
AnswersTo(address, channel) ==
    IF (IF OwnTarget(Self, address, channel) THEN 0 ELSE 1) # config.transmode
    THEN CmdAnswers ELSE {NoAnswer}

SendMessage ==
    \E t \in Targets, payload \in Payloads, useChecksum \in BOOLEAN :
    \E resp \in AnswersTo(t[1], t[2]), lows \in IF payload.isdict THEN LowPolls ELSE {0} :
        Returns(sendMessage(Self, t[1], t[2], payload, useChecksum, resp, lows),
                Call("sendMessage", t[1], t[2], payload, useChecksum, ""))

RecvMessage ==
    \E t \in Targets, useChecksum \in BOOLEAN, rx \in RxAnswers :
    \E resp \in AnswersTo(t[1], t[2]) :
        Returns(recvMessage(Self, t[1], t[2], useChecksum, resp, rx),
                Call("recvMessage", t[1], t[2], NotADict, useChecksum, ""))

GetConfig ==
    \E resp \in CmdAnswers :
        Returns(getConfig(Self, resp), Call("getConfig", 0, 0, NotADict, FALSE, ""))

GetVersion ==
    \E resp \in VersionAnswers :
        Returns(getVersion(Self, resp), Call("getVersion", 0, 0, NotADict, FALSE, ""))

Reset == Returns(reset(Self), Call("reset", 0, 0, NotADict, FALSE, ""))

SetConfig ==
    \E save_cmd \in {"setConfigPwrDwnSave", "setConfigPwrDwnNoSave"}, resp \in CmdAnswers :
        Returns(setConfig(Self, save_cmd, resp),
                Call("setConfig", 0, 0, NotADict, FALSE, save_cmd))

Next ==
    \/ Start
    \/ Stop
    \/ SendMessage
    \/ RecvMessage
    \/ GetConfig
    \/ GetVersion
    \/ Reset
    \/ SetConfig

Spec == Init /\ [][Next]_vars

-----------------------------------------------------------------------------
(* The checksum specification: the checksum byte of every text *)

InitChecksum ==
    /\ Constructed(Ctor("868T20D", 1, 2), FALSE)
    /\ cs_in \in Texts
    /\ cs_out = <<>>
    /\ link = NoLink

\* the text is framed as sendMessage frames it with useChecksum
CalcChecksum ==
    /\ cs_out = <<>>
    /\ cs_out' = appendChecksum(cs_in, cs_in)
    /\ UNCHANGED <<config, M0, M1, serdev, debug, snapshot, log, call, ret, entry, cs_in, link>>

NextChecksum == CalcChecksum

SpecChecksum == InitChecksum /\ [][NextChecksum]_vars

-----------------------------------------------------------------------------
(* The link specification: a receiver whose serial link delivers what a     *)
(* sender's sendMessage wrote, unchanged or with one byte altered, or bytes *)
(* that are no frame of a sender                                            *)

\* payloads sent: {}, {'k': 'v'}, a value holding a quote and a backslash,
\* and the sensor node's {'node': '02', 'temp': '21', 'pres': '101013'}
LinkPayloads ==
    { <<>>,
      << <<<<107>>, <<118>>>> >>,
      << <<<<113>>, <<34, 92, 120>>>> >>,
      << <<<<110, 111, 100, 101>>, <<48, 50>>>>,
         <<<<116, 101, 109, 112>>, <<50, 49>>>>,
         <<<<112, 114, 101, 115>>, <<49, 48, 49, 48, 49, 51>>>> >> }

\* the sender: the sensor node, started, its module echoing the commands
Sender == start(init("868T20D", "U1", 9600, "8N1", "2.4k", 1, 2, FALSE), Echo).self

\* the receivers: the monitor node (0xFFFF, channel 4) and a node at (3, 4)
Receivers == {Ctor("868T20D", 65535, 4), Ctor("868T20D", 3, 4)}

\* the bytes that reach the receiver's serial link of the frame a sendMessage
\* that left r wrote: the frame after the 3-byte prefix of a fixed transmission
OnLink(r) ==
    LET f == r.self.log[Len(r.self.log)].data
    IN  IF r.self.config.transmode = 1 THEN SubSeq(f, 4, Len(f)) ELSE f

\* byte values a byte of the frame can be replaced by: the extremes, and
\* characters that delimit the text (quote, colon, closing brace)
ByteValues == {0, 34, 58, 125, 255}

\* bytes that no sender framed: a lone zero byte, and texts followed by their
\* checksum byte: '{', '{"k": "v"' (no closing brace), '"abc"' and 'x'
WithChecksum(text) == appendChecksum(text, text)
NoiseBytes ==
    { <<0>>,
      WithChecksum(<<123>>),
      WithChecksum(<<123, 34, 107, 34, 58, 32, 34, 118, 34>>),
      WithChecksum(<<34, 97, 98, 99, 34>>),
      WithChecksum(<<120>>) }

InitLink ==
    /\ \E a \in Receivers : Constructed(a, FALSE)
    /\ cs_in = <<>>
    /\ cs_out = <<>>
    /\ link = NoLink

LinkUnchanged ==
    UNCHANGED <<config, M0, M1, serdev, debug, snapshot, log, call, ret, entry, cs_in, cs_out>>

\* a sender's sendMessage puts a frame on the link (one frame in a behaviour)
Transmit ==
    /\ link.kind = "none"
    /\ \E t \in Targets, items \in LinkPayloads, useChecksum \in BOOLEAN :
          link' = [kind |-> "frame", sent |-> items, checksummed |-> useChecksum,
                   bytes |-> OnLink(sendMessage(Sender, t[1], t[2], DictPayload(items),
                                                useChecksum, Echo, 0))]
    /\ LinkUnchanged

\* one byte of a checksummed frame is replaced by a different value
Alter ==
    /\ link.kind = "frame"
    /\ link.checksummed
    /\ \E i \in 1..Len(link.bytes) :
       \E b \in ByteValues \ {link.bytes[i]} :
          link' = [link EXCEPT !.kind = "altered", !.bytes[i] = b]
    /\ LinkUnchanged

\* bytes of no sender arrive
Noise ==
    /\ link.kind = "none"
    /\ \E bytes \in NoiseBytes :
          link' = [kind |-> "noise", sent |-> <<>>, checksummed |-> FALSE, bytes |-> bytes]
    /\ LinkUnchanged

\* the receiver is started, its module echoing the set-config command
StartReceiver ==
    Returns(start(Self, Echo), Call("start", 0, 0, NotADict, FALSE, ""))

\* recvMessage reads what is on the link
Receive ==
    \E t \in Targets, useChecksum \in BOOLEAN :
    \E resp \in IF AnswersTo(t[1], t[2]) = {NoAnswer} THEN {NoAnswer} ELSE {NoAnswer, Echo} :
        Returns(recvMessage(Self, t[1], t[2], useChecksum, resp,
                            IF link.kind = "none" THEN NoAnswer ELSE Answer(link.bytes)),
                Call("recvMessage", t[1], t[2], NotADict, useChecksum, ""))

NextLink ==
    \/ StartReceiver
    \/ Transmit
    \/ Alter
    \/ Noise
    \/ Receive

SpecLink == InitLink /\ [][NextLink]_vars

-----------------------------------------------------------------------------
(* The codec specification: encodeConfig and decodeConfig on the register   *)
(* fields of valid configurations, and decodeConfig on registers a device   *)
(* can answer with                                                          *)

\* the values of the register fields the codec is applied to
CodecAddresses == {1, 65535}
CodecChannels == {4, 31}
CodecBaudrates == {1200, 9600, 115200}
CodecDatarates == {"0.3k", "2.4k", "19.2k"}
WakeupTimes == 0..7

\* the register fields of a configuration are in their domains
ValidConfig(c) ==
    /\ c.address \in 0..65535
    /\ ~c.channel_is_str /\ c.channel \in 0..31
    /\ c.parity \in DOMAIN PARSTR
    /\ c.baudrate \in DOMAIN BAUDRATE
    /\ c.datarate \in DOMAIN DATARATE
    /\ c.transmode \in 0..1 /\ c.iomode \in 0..1 /\ c.wutime \in WakeupTimes
    /\ c.fec \in 0..1 /\ c.txpower \in TXPOWER

\* registers read from a device: a valid one, parity bits 11, air data rate
\* bits 110 and 111
Registers ==
    { <<192, 0, 1, 26, 2, 68>>,
      <<192, 0, 1, 218, 2, 68>>,
      <<192, 0, 1, 30, 2, 68>>,
      <<192, 0, 1, 31, 2, 68>> }

InitCodec ==
    /\ \E address \in CodecAddresses, channel \in CodecChannels, parity \in DOMAIN PARSTR,
          baudrate \in CodecBaudrates, datarate \in CodecDatarates,
          transmode \in 0..1, iomode \in 0..1, wutime \in WakeupTimes, fec \in 0..1,
          txpower \in TXPOWER :
          config = [init("868T20D", "U1", baudrate, parity, datarate, address, channel,
                         FALSE).config
                    EXCEPT !.transmode = transmode, !.iomode = iomode, !.wutime = wutime,
                           !.fec = fec, !.txpower = txpower]
    /\ M0 = NoPin /\ M1 = NoPin /\ serdev = "None" /\ debug = FALSE
    /\ snapshot = <<>> /\ log = <<>> /\ call = NoCall /\ ret = RetNone
    /\ entry = [config |-> config, snapshot |-> <<>>]
    /\ cs_in = <<>> /\ cs_out = <<>> /\ link = NoLink

\* the state after decodeConfig(message) was applied, message kept in the log
Decoded(op, message) ==
    /\ config' = decodeConfig(Self, message).config
    /\ log' = <<Ev("decode", "decodeConfig", message, 0)>>
    /\ call' = Call(op, 0, 0, NotADict, FALSE, "")
    /\ ret' = RetNone
    /\ entry' = Entry
    /\ UNCHANGED <<M0, M1, serdev, debug, snapshot, cs_in, cs_out, link>>

\* decodeConfig(encodeConfig()) on a configuration whose register is 6 bytes
\* (the codec is applied once in a behaviour)
EncodeDecode ==
    /\ call = NoCall
    /\ ~encodeConfig(Self).exc
    /\ BytesOK(encodeConfig(Self).ret)
    /\ Decoded("encodeConfig;decodeConfig", encodeConfig(Self).ret)

\* decodeConfig on a register read from a device
DecodeRegister ==
    /\ call = NoCall
    /\ \E message \in Registers : Decoded("decodeConfig", message)

NextCodec ==
    \/ EncodeDecode
    \/ DecodeRegister

SpecCodec == InitCodec /\ [][NextCodec]_vars

-----------------------------------------------------------------------------
(* The start specification: drivers constructed with arguments inside and   *)
(* outside their tables, then started                                       *)

\* constructor arguments: a port, a baud rate, a parity and an air data rate
\* that are keys of their tables and ones that are not; channels inside and
\* above the band of the model, and above 31
StartArgs ==
    [Model : {"868T20D", "400T20D", "170T20D"}, Port : {"U1", "U9"},
     Baudrate : {9600, 1234}, Parity : {"8N1", "8X1"}, AirDataRate : {"2.4k", "5k"},
     Address : {1}, Channel : {4, 20, 31, 40}]

\* answers to the set-config command of start: nothing, the command echoed,
\* and a register whose parity bits are 11
StartAnswers == {NoAnswer, Echo, Answer(<<192, 0, 1, 218, 2, 68>>)}

\* the state after the constructor; call keeps the Model and Channel given
InitStart ==
    /\ \E a \in StartArgs, dbg \in BOOLEAN :
          /\ config = init(a.Model, a.Port, a.Baudrate, a.Parity, a.AirDataRate,
                           a.Address, a.Channel, dbg).config
          /\ debug = dbg
          /\ call = Call("__init__", a.Address, a.Channel, NotADict, FALSE, a.Model)
    /\ M0 = NoPin /\ M1 = NoPin /\ serdev = "None"
    /\ snapshot = <<>> /\ log = <<>> /\ ret = RetNone
    /\ entry = [config |-> config, snapshot |-> <<>>]
    /\ cs_in = <<>> /\ cs_out = <<>> /\ link = NoLink

StartDriver ==
    \E resp \in StartAnswers :
        Returns(start(Self, resp), Call("start", 0, 0, NotADict, FALSE, ""))

NextStart == StartDriver

SpecStart == InitStart /\ [][NextStart]_vars

-----------------------------------------------------------------------------
(* Reading the log of the last call *)

Idx == 1..Len(log)

\* the indices of the UART writes and reads a method made
WritesBy(by) == {i \in Idx : log[i].ev = "write" /\ log[i].by = by}
ReadsBy(by) == {i \in Idx : log[i].ev = "read" /\ log[i].by = by}

\* the last event of kind ev before index i, 0 if there is none in this call
LastBefore(i, ev) ==
    LET js == {j \in 1..(i - 1) : log[j].ev = ev}
    IN  IF js = {} THEN 0 ELSE CHOOSE j \in js : \A k \in js : k <= j

\* the level the call has put on a mode line before event i, NoPin if it has
\* not written the line yet
LineAt(i, line) ==
    IF LastBefore(i, line) = 0 THEN NoPin ELSE log[LastBefore(i, line)].data[1]
ModeAt(i) == <<LineAt(i, "M0"), LineAt(i, "M1")>>

\* the milliseconds slept between the last write of a mode line and event i
RECURSIVE SleptBetween(_, _)
SleptBetween(j, i) ==
    IF j >= i THEN 0
    ELSE (IF log[j].ev = "sleep" THEN log[j].n ELSE 0) + SleptBetween(j + 1, i)
SettledAt(i) ==
    LET j == IF LastBefore(i, "M0") > LastBefore(i, "M1")
             THEN LastBefore(i, "M0") ELSE LastBefore(i, "M1")
    IN  SleptBetween(j + 1, i)

\* the call wrote a payload frame / a set-config command frame
FrameWritten == WritesBy("sendMessage") # {}
Frame == log[CHOOSE i \in WritesBy("sendMessage") : TRUE].data
SetConfigWrites == {i \in WritesBy("sendCommand") : log[i].data[1] \in {192, 194}}

\* the target of the last call was the module's own address and channel when
\* the call was made; the transmission mode the call selects
OwnAtEntry ==
    /\ call.address = entry.config.address
    /\ ~entry.config.channel_is_str
    /\ call.channel = entry.config.channel
SelectedMode == IF OwnAtEntry THEN 0 ELSE 1

\* the frame begins with the 3-byte address/channel prefix of the target
Prefixed ==
    /\ Len(Frame) >= 3
    /\ SubSeq(Frame, 1, 3) = <<call.address \div 256, call.address % 256, call.channel>>

\* the driver is started: mode lines bound and the UART open
Started == M0 # NoPin /\ serdev = "open"

\* the answer read by the command of the last call was not 6 bytes long
AnswerNot6 ==
    \E i \in ReadsBy("sendCommand") : log[i].n = NoData \/ Len(log[i].data) # 6

\* the payload read of the last call, and whether it returned bytes
PayloadReads == ReadsBy("recvMessage")
Received == log[CHOOSE i \in PayloadReads : TRUE]
GotBytes == PayloadReads # {} /\ Received.n # NoData

\* the last call was a recvMessage that read the bytes now on the link
ReadTheLink == call.op = "recvMessage" /\ GotBytes /\ Received.data = link.bytes

\* the two's-complement checksum of a byte string, as a number
CsValue(bytes) == (256 - (SumSeq(bytes) % 256)) % 256

\* what recvMessage returns for the result l of ujson.loads
ResultOf(l) == IF l.exc THEN NOK ELSE RetJson(l.type, l.ret)
ParsedOf(text) == ResultOf(loads(text))

\* a byte string without its last byte
Front(bytes) == SubSeq(bytes, 1, Len(bytes) - 1)

\* the register fields of a configuration
RegisterFields(c) ==
    <<c.address, c.channel, c.parity, c.baudrate, c.datarate, c.transmode, c.iomode,
      c.wutime, c.fec, c.txpower>>

\* the register decodeConfig was given in the last call, and the bits of its
\* speed byte: parity (2), baud rate (3), air data rate (3)
DecodedRegister == log[1].data
SpeedBits == FormatBin(DecodedRegister[4], 8)

\* the answer read by the command of the last call was missing or not n bytes
AnswerNot(n) ==
    \E i \in ReadsBy("sendCommand") : log[i].n = NoData \/ Len(log[i].data) # n

\* the command of the last call wrote its frame of 3 equal bytes
ResetFrameWritten ==
    \E i \in WritesBy("sendCommand") : log[i].data = <<196, 196, 196>>

-----------------------------------------------------------------------------
(* Claims *)

\* C1 (as claimed): the frame sendMessage writes begins with the 3-byte
\* address/channel prefix if and only if the target differs from the
\* module's address and channel at call entry.
C1_PrefixIffOtherTarget ==
    (call.op = "sendMessage" /\ FrameWritten) => (Prefixed <=> ~OwnAtEntry)

\* C2 (as claimed): on a started driver, sendMessage and recvMessage write a
\* set-config command frame, before the payload write or read, if and only
\* if the selected mode differs from transmissionMode at call entry.
C2_SetConfigIffModeDiffers ==
    (call.op \in {"sendMessage", "recvMessage"} /\ Started) =>
        /\ (SetConfigWrites # {}) <=> (SelectedMode # entry.config.transmode)
        /\ \A i \in SetConfigWrites :
              \A j \in WritesBy("sendMessage") \cup ReadsBy("recvMessage") : i < j

\* C3 (as claimed): when setConfig returns NOK, Configuration and the
\* persisted snapshot are what they were before the call.
C3_SetConfigNokNoUpdate ==
    (call.op = "setConfig" /\ ret = NOK) =>
        (config = entry.config /\ snapshot = entry.snapshot)

\* C4 (as claimed): when sendMessage or recvMessage issues a set-config
\* command whose answer is not 6 bytes long, transmissionMode keeps the
\* value it had before the call.
C4_FailedSwitchKeepsMode ==
    (call.op \in {"sendMessage", "recvMessage"} /\ SetConfigWrites # {} /\ AnswerNot6) =>
        config.transmode = entry.config.transmode

\* C5 (as claimed): after setConfig returns OK, the register fields of
\* Configuration are the values decoded from the 6-byte answer.
C5_SetConfigOkDecoded ==
    (call.op = "setConfig" /\ ret = OK) =>
        \A i \in ReadsBy("sendCommand") :
            config = decodeConfig([config |-> config], log[i].data).config

\* C6 (as claimed): after a sendMessage to a target other than the module's
\* own address and channel has written its frame, transmissionMode is what
\* it was before the call.
C6_RevertsAfterSend ==
    (call.op = "sendMessage" /\ FrameWritten /\ ~OwnAtEntry) =>
        config.transmode = entry.config.transmode

\* C7: every command frame is written while the mode lines hold the sleep
\* pattern (M0=1, M1=1), set in the same call, and after at least 50 ms have
\* been slept since the lines were written.
C7_CommandsInSleepMode ==
    \A i \in WritesBy("sendCommand") : ModeAt(i) = <<1, 1>> /\ SettledAt(i) >= 50

C7_Witness ==
    /\ call.op = "sendMessage"
    /\ SetConfigWrites # {}
    /\ FrameWritten

\* C8: sendMessage writes its payload frame only while the mode lines hold
\* the wakeup pattern (M0=1, M1=0) and recvMessage reads only while they
\* hold the normal pattern (M0=0, M1=0).
C8_TransportModes ==
    /\ \A i \in WritesBy("sendMessage") : ModeAt(i) = <<1, 0>>
    /\ \A i \in ReadsBy("recvMessage") : ModeAt(i) = <<0, 0>>

C8_Witness ==
    /\ call.op = "recvMessage"
    /\ SetConfigWrites # {}
    /\ \E i \in ReadsBy("recvMessage") : log[i].n # NoData

\* C9 (as claimed): sendMessage with a payload that is not a dictionary
\* returns NOK and writes nothing to the serial link during the call.
C9_NotADictWritesNothing ==
    (call.op = "sendMessage" /\ ~call.payload.isdict) =>
        (ret = NOK /\ \A i \in Idx : log[i].ev # "write")

\* C10: the byte appended to a text P is c = (-(sum of P mod 256)) mod 256,
\* a byte, and the bytes of P followed by c sum to 0 modulo 256.
C10_ChecksumByte ==
    cs_out # <<>> =>
        LET c == cs_out[Len(cs_out)]
        IN  /\ cs_out = Append(cs_in, c)
            /\ c \in 0..255
            /\ c = (256 - (SumSeq(cs_in) % 256)) % 256
            /\ SumSeq(cs_out) % 256 = 0

C10_Witness == cs_out # <<>> /\ Len(cs_in) = MaxTextLen /\ SumSeq(cs_in) % 256 = 0

\* C11: recvMessage with useChecksum, reading a checksummed frame of
\* sendMessage in which one payload or checksum byte was replaced by a
\* different value, returns the corrupt-message result.
C11_AlteredFrameIsCorrupt ==
    (ReadTheLink /\ call.useChecksum /\ link.kind = "altered") =>
        ret.kind = "msg:corrupt"

C11_Witness ==
    /\ ReadTheLink /\ call.useChecksum /\ link.kind = "altered"
    /\ Len(link.sent) = 3
    /\ ret.kind = "msg:corrupt"

\* C12: recvMessage with useChecksum that received bytes returns the
\* corrupt-message result, carrying the checksum computed over all received
\* bytes, if and only if that checksum is nonzero; when it is zero, the
\* result is that of parsing the received text without its last byte.
C12_CorruptIffNonzero ==
    (call.op = "recvMessage" /\ call.useChecksum /\ GotBytes) =>
        /\ (ret.kind = "msg:corrupt") <=> (CsValue(Received.data) # 0)
        /\ CsValue(Received.data) # 0 => ret = RetCorrupt(CsValue(Received.data))
        /\ CsValue(Received.data) = 0 => ret = ParsedOf(Front(Received.data))

C12_Witness ==
    /\ call.op = "recvMessage" /\ call.useChecksum /\ GotBytes
    /\ link.kind = "noise" /\ Received.data = link.bytes
    /\ CsValue(Received.data) = 0
    /\ ret = NOK

C14_NoDataIsEmptyMessage ==
    (call.op = "recvMessage" /\ Started /\ link.kind = "none") =>
        /\ ret.kind = "msg:None"
        /\ Cardinality(PayloadReads) = 1
        /\ Received.n = NoData

C14_Witness ==
    /\ call.op = "recvMessage" /\ Started /\ link.kind = "none"
    /\ SetConfigWrites # {}
    /\ call.useChecksum
    /\ ret.kind = "msg:None"

C16_CodecRoundTrip ==
    (call.op = "encodeConfig;decodeConfig" /\ ValidConfig(entry.config)) =>
        RegisterFields(config) = RegisterFields(entry.config)

\* C17 (as claimed): decoding a register whose parity bits or air data rate
\* bits have no table entry stores no absent value in Configuration.
C17_NoTableEntryNotStored ==
    (call.op = "decodeConfig"
        /\ \/ \A p \in DOMAIN PARSTR : PARSTR[p] # SubSeq(SpeedBits, 1, 2)
           \/ \A r \in DOMAIN DATARATE : DATARATE[r] # SubSeq(SpeedBits, 6, 8)) =>
        (config.parity # "None" /\ config.datarate # "None")

\* C18: no call writes more than one command frame, nor more than one
\* payload frame, nor reads more than one command answer; getConfig and
\* setConfig return NOK on an answer that is missing or not 6 bytes long,
\* getVersion on one that is missing or not 4 bytes long.
C18_NoRetry ==
    /\ Cardinality(WritesBy("sendCommand")) <= 1
    /\ Cardinality(ReadsBy("sendCommand")) <= 1
    /\ Cardinality(WritesBy("sendMessage")) <= 1
    /\ (call.op \in {"getConfig", "setConfig"} /\ AnswerNot(6)) => ret = NOK
    /\ (call.op = "getVersion" /\ AnswerNot(4)) => ret = NOK

C18_Witness ==
    /\ call.op = "getConfig"
    /\ Cardinality(WritesBy("sendCommand")) = 1
    /\ \E i \in ReadsBy("sendCommand") : log[i].n # NoData /\ Len(log[i].data) = 4
    /\ ret = NOK

\* C19 (as claimed): start returns NOK when the set-config command was not
\* written or its answer is missing or not 6 bytes long.
C19_StartNokOnFailedPush ==
    (call.op = "start" /\ (SetConfigWrites = {} \/ AnswerNot(6))) => ret = NOK

\* C20 (as claimed): reset returns NOK when the 3-byte reset frame was not
\* written.
C20_ResetNokWhenUndelivered ==
    (call.op = "reset" /\ ~ResetFrameWritten) => ret = NOK

\* the exposed operations, and the results the interface names: "OK", "NOK",
\* a mapping, {'msg': None} and the corrupt-message mapping
ExposedOps == {"start", "sendMessage", "recvMessage", "getVersion", "getConfig", "reset", "stop"}
ResultKinds == {"OK", "NOK", "dict", "msg:None", "msg:corrupt"}

\* C21 (as claimed): every exposed operation returns to its caller, and what
\* it returns is OK, NOK or a result mapping.
C21_ReturnsOkNokOrMapping ==
    call.op \in ExposedOps => ret.kind \in ResultKinds

\* C22 (as claimed): after start returns OK, port, baud rate, parity and air
\* data rate are keys of their tables, the band of the model is in the
\* frequency table, and channel is an integer in 0..31.
C22_StartedFieldsInDomain ==
    (call.op = "start" /\ ret = OK) =>
        /\ config.port \in PORT
        /\ config.baudrate \in DOMAIN BAUDRATE
        /\ config.parity \in DOMAIN PARSTR
        /\ config.datarate \in DOMAIN DATARATE
        /\ FreqKey(config.model) \in DOMAIN FREQ
        /\ ~config.channel_is_str
        /\ config.channel \in 0..31

\* the frequency of a channel in the band of a model: the minimum of the band
\* plus the channel, and the maximum of the band when that lies above it
BandFrequency(model, channel) ==
    LET minfreq == FREQ[FreqKey(model)][1]
        maxfreq == FREQ[FreqKey(model)][3]
    IN  IF minfreq + channel > maxfreq THEN maxfreq ELSE minfreq + channel

\* C23 (as claimed): between operations, frequency is the minimum of the
\* band of the model plus the channel, clamped to the maximum of the band.
C23_FrequencyNeverStale ==
    config.frequency = BandFrequency(config.model, config.channel)

\* C24 (as claimed): the constructor's calcFrequency, given a channel that
\* lies above the band, sets frequency to the maximum of the band and channel
\* to the integer offset maximum - minimum; otherwise frequency is minimum +
\* channel and channel is the integer given.
C24_FrequencyClamp ==
    call.op = "__init__" =>
        LET minfreq == FREQ[FreqKey(call.cmd)][1]
            maxfreq == FREQ[FreqKey(call.cmd)][3]
        IN  /\ ~config.channel_is_str
            /\ config.frequency = BandFrequency(call.cmd, call.channel)
            /\ config.channel = IF minfreq + call.channel > maxfreq
                                THEN maxfreq - minfreq ELSE call.channel

\* the polls of AUX and the sleeps of waitForDeviceIdle in the last call
IdlePolls == {i \in Idx : log[i].ev = "AUX"}
IdleSleeps == {i \in Idx : log[i].ev = "sleep" /\ log[i].by = "waitForDeviceIdle"}

\* C25: waitForDeviceIdle polls AUX at most 10 times and sleeps 10 ms at a
\* time, at most 100 ms in all; a poll that reads high is its last step, a
\* poll that reads low is its last step only if it is the tenth; the call
\* goes on afterwards: a started sendMessage writes its frame after the wait.
C25_IdleWaitBounded ==
    /\ Cardinality(IdlePolls) <= 10
    /\ \A i \in IdleSleeps : log[i].n = 10
    /\ 10 * Cardinality(IdleSleeps) <= 100
    /\ \A i \in IdlePolls :
          /\ log[i].data = <<1>> =>
                \A j \in Idx : j > i => log[j].by # "waitForDeviceIdle"
          /\ (log[i].data = <<0>> /\ \A j \in Idx : j > i => log[j].by # "waitForDeviceIdle")
                => Cardinality(IdlePolls) = 10
    /\ (call.op = "sendMessage" /\ call.payload.isdict /\ Started) =>
          /\ IdlePolls # {}
          /\ FrameWritten
          /\ \A i \in IdlePolls, j \in WritesBy("sendMessage") : i < j

C25_Witness ==
    /\ call.op = "sendMessage"
    /\ Cardinality(IdlePolls) = 10
    /\ \A i \in IdlePolls : log[i].data = <<0>>
    /\ FrameWritten

\* C26 (as claimed): getVersion returns OK only if the answer read is 4
\* bytes long and its first byte is the getVersion opcode 0xC3.
C26_VersionOkOnlyWithHeader ==
    (call.op = "getVersion" /\ ret = OK) =>
        \E i \in ReadsBy("sendCommand") :
            /\ log[i].n # NoData
            /\ Len(log[i].data) = 4
            /\ log[i].data[1] = 195

\* C27 (as claimed): between operations, a snapshot that has been written
\* equals the current Configuration.
C27_SnapshotIsConfig ==
    snapshot # <<>> => snapshot[1] = config

\* the code (0, 1, 2, ..) the bits of a table entry stand for
Code(bits) == IntBin(bits)

\* C28: the list encodeConfig makes of a valid Configuration has 6 elements,
\* each in 0..255: address div 256, address mod 256, parity code * 64 + baud
\* rate code * 8 + air data rate code, channel, and transmissionMode * 128 +
\* ioMode * 64 + wakeupTime * 8 + forwardErrorCorrection * 4 + txPower.
C28_EncodeLayout ==
    (call.op = "encodeConfig;decodeConfig" /\ ValidConfig(entry.config)) =>
        LET c == entry.config
            m == DecodedRegister
        IN  /\ Len(m) = 6
            /\ \A i \in 1..6 : m[i] \in 0..255
            /\ m[2] = c.address \div 256
            /\ m[3] = c.address % 256
            /\ m[4] = Code(PARSTR[c.parity]) * 64 + Code(BAUDRATE[c.baudrate]) * 8
                      + Code(DATARATE[c.datarate])
            /\ m[5] = c.channel
            /\ m[6] = c.transmode * 128 + c.iomode * 64 + c.wutime * 8 + c.fec * 4
                      + c.txpower

C28_Witness ==
    /\ call.op = "encodeConfig;decodeConfig"
    /\ entry.config.address = 1 /\ entry.config.channel = 4
    /\ entry.config.parity = "8N1" /\ entry.config.baudrate = 9600
    /\ entry.config.datarate = "2.4k"
    /\ entry.config.transmode = 0 /\ entry.config.iomode = 1 /\ entry.config.wutime = 0
    /\ entry.config.fec = 1 /\ entry.config.txpower = 0
    /\ DecodedRegister = <<192, 0, 1, 26, 4, 68>>

\* a register whose fields all have a meaning: parity bits in the table, air
\* data rate bits in the table, channel in 0..31
ValidRegister(m) ==
    /\ Len(m) = 6
    /\ \A i \in 1..6 : m[i] \in 0..255
    /\ \E p \in DOMAIN PARSTR : PARSTR[p] = SubSeq(FormatBin(m[4], 8), 1, 2)
    /\ \E r \in DOMAIN DATARATE : DATARATE[r] = SubSeq(FormatBin(m[4], 8), 6, 8)
    /\ m[5] \in 0..31

\* C29 (as claimed): when getConfig has read a valid 6-byte register, the
\* setConfig called next writes a command frame whose bytes 1 to 5 are bytes
\* 1 to 5 of that register.
C29_ReadThenWrite ==
    [][ \A i \in ReadsBy("sendCommand") :
          (/\ call.op = "getConfig"
           /\ log[i].n # NoData
           /\ ValidRegister(log[i].data)
           /\ call'.op = "setConfig") =>
              \E j \in 1..Len(log') :
                  /\ log'[j].ev = "write"
                  /\ log'[j].by = "sendCommand"
                  /\ Len(log'[j].data) = 6
                  /\ SubSeq(log'[j].data, 2, 6) = SubSeq(log[i].data, 2, 6) ]_vars

\* the Configuration at the moment the last call wrote its set-config
\* command: sendMessage and recvMessage have stored the selected mode; start
\* and setConfig write the Configuration they were called with (the checks of
\* start replace no field of the drivers of this specification)
ConfigWritten ==
    IF call.op \in {"sendMessage", "recvMessage"}
    THEN [entry.config EXCEPT !.transmode = SelectedMode]
    ELSE entry.config

\* C30: a command frame is 3 bytes equal to the opcode for getConfig (0xC1),
\* getVersion (0xC3) and reset (0xC4); a set-config frame is 6 bytes, the
\* opcode (0xC2 for setConfigPwrDwnNoSave, else 0xC0) followed by bytes 1 to
\* 5 of the encoded current Configuration; Configuration is left as it was by
\* getVersion, by reset, and by a setConfig that does not decode the answer.
C30_CommandFrames ==
    /\ \A i \in WritesBy("sendCommand") :
          LET f == log[i].data
          IN  CASE call.op = "getConfig" -> f = <<193, 193, 193>>
                [] call.op = "getVersion" -> f = <<195, 195, 195>>
                [] call.op = "reset" -> f = <<196, 196, 196>>
                [] OTHER ->
                    /\ Len(f) = 6
                    /\ f[1] = IF call.cmd = "setConfigPwrDwnNoSave" THEN 194 ELSE 192
                    /\ SubSeq(f, 2, 6)
                          = SubSeq(encodeConfig([config |-> ConfigWritten]).ret, 2, 6)
    /\ call.op \in {"getVersion", "reset"} => config = entry.config
    /\ (call.op = "setConfig" /\ ~debug) => config = entry.config

C30_Witness ==
    /\ call.op = "setConfig" /\ call.cmd = "setConfigPwrDwnNoSave"
    /\ \E i \in WritesBy("sendCommand") : log[i].data = <<194, 0, 3, 26, 4, 68>>
    /\ ret = OK

\* the frame a sendMessage of the last call's arguments makes in the
\* transmission mode the Configuration holds: the prefix in fixed mode, the
\* characters of the serialized payload, the checksum byte of those characters
ExpectedFrame ==
    LET text == dumps(call.payload.items)
    IN  (IF config.transmode = 1
         THEN <<call.address \div 256, call.address % 256, call.channel>> ELSE <<>>)
        \o text
        \o (IF call.useChecksum THEN <<CsValue(text)>> ELSE <<>>)

\* C31: sendMessage writes its frame in one write: in fixed mode the 3-byte
\* prefix [to_address div 256, to_address mod 256, to_channel], then the
\* characters of the serialized payload, then, only with useChecksum, one
\* checksum byte computed over the serialized payload alone; in transparent
\* mode the same without the prefix.
C31_FrameFormat ==
    (call.op = "sendMessage" /\ FrameWritten) =>
        /\ Cardinality(WritesBy("sendMessage")) = 1
        /\ Frame = ExpectedFrame

C31_Witness ==
    /\ call.op = "sendMessage" /\ FrameWritten
    /\ config.transmode = 1
    /\ call.useChecksum
    /\ SubSeq(Frame, 1, 3) = <<0, 3, 4>>
    /\ Len(Frame) = Len(dumps(call.payload.items)) + 4

\* C32 (as claimed): on a started driver, reset writes the 3-byte reset frame
\* and reads nothing; getConfig, getVersion and setConfig each make exactly
\* one read, after their write and a wait of 50 ms.
C32_ResetNoReadOthersOne ==
    /\ (call.op = "reset" /\ Started) =>
          (ResetFrameWritten /\ \A i \in Idx : log[i].ev # "read")
    /\ (call.op \in {"getConfig", "getVersion", "setConfig"} /\ Started) =>
          /\ Cardinality(ReadsBy("sendCommand")) = 1
          /\ \A j \in ReadsBy("sendCommand") :
                \E i \in WritesBy("sendCommand") :
                    /\ i < j
                    /\ \E k \in (i + 1)..(j - 1) : log[k].ev = "sleep" /\ log[k].n = 50

\* C33: getVersion leaves Configuration and the snapshot as they were,
\* whatever the answer; its hardware events are those of setOperationMode
\* and sendCommand, and bound mode lines are left in the sleep pattern.
C33_GetVersionNoStateChange ==
    call.op = "getVersion" =>
        /\ config = entry.config
        /\ snapshot = entry.snapshot
        /\ \A i \in Idx : log[i].by \in {"setOperationMode", "sendCommand"}
        /\ M0 # NoPin => (M0 = 1 /\ M1 = 1)

C33_Witness ==
    /\ call.op = "getVersion"
    /\ \E i \in ReadsBy("sendCommand") : log[i].data = <<195, 0, 13, 20>>
    /\ ret = NOK
    /\ snapshot # <<>>
    /\ snapshot[1] # config

\* C34 (as claimed): getConfig either returns OK with the register fields
\* decoded from the 6-byte answer, or returns NOK with Configuration as it
\* was before the call.
C34_GetConfigAllOrNothing ==
    call.op = "getConfig" =>
        \/ ret = NOK /\ config = entry.config
        \/ /\ ret = OK
           /\ \E i \in ReadsBy("sendCommand") :
                 /\ log[i].n # NoData
                 /\ Len(log[i].data) = 6
                 /\ config = decodeConfig([config |-> entry.config], log[i].data).config

\* the wait of the last call ended with AUX still low
TimedOut == Cardinality(IdlePolls) = 10 /\ \A i \in IdlePolls : log[i].data = <<0>>

\* C35: on a started driver, a sendMessage that has waited for the device
\* writes the complete frame in one write, as its last step, and returns OK,
\* whether a poll read AUX high or the wait ended with AUX still low.
C35_BestEffortWait ==
    (call.op = "sendMessage" /\ IdlePolls # {} /\ Started) =>
        /\ ret = OK
        /\ WritesBy("sendMessage") = {Len(log)}
        /\ Frame = ExpectedFrame

C35_Witness ==
    /\ call.op = "sendMessage" /\ Started
    /\ TimedOut
    /\ ret = OK
    /\ Frame = ExpectedFrame

\* the transmission modes the device acknowledged in the events l of a call:
\* the mode bit of a 6-byte answer read after a set-config command
AckedModes(l) ==
    {l[j].data[6] \div 128 :
        j \in {j \in 1..Len(l) :
                 /\ l[j].ev = "read" /\ l[j].by = "sendCommand"
                 /\ l[j].n # NoData /\ Len(l[j].data) = 6
                 /\ \E i \in 1..(j - 1) :
                       /\ l[i].ev = "write" /\ l[i].by = "sendCommand"
                       /\ l[i].data[1] \in {192, 194}}}

\* C36 (as claimed): when sendMessage writes a payload frame, the frame has
\* the 3-byte prefix if and only if the mode the device acknowledged last,
\* in this call or else in the call before it, is the fixed mode.
C36_FramedInAckedMode ==
    [][ \A j \in 1..Len(log') :
          (/\ call'.op = "sendMessage"
           /\ log'[j].ev = "write" /\ log'[j].by = "sendMessage"
           /\ AckedModes(log) \cup AckedModes(log') # {}) =>
              LET acked == IF AckedModes(log') # {} THEN AckedModes(log')
                           ELSE AckedModes(log)
                  prefixed == Len(log'[j].data)
                                 = 3 + Len(dumps(call'.payload.items))
                                     + (IF call'.useChecksum THEN 1 ELSE 0)
              IN  acked = {IF prefixed THEN 1 ELSE 0} ]_vars

\* the operations that send a command
CommandOps == {"start", "getConfig", "getVersion", "reset", "setConfig"}

\* C37: a command operation that wrote its command returns with the mode
\* lines in the sleep pattern (M0=1, M1=1), and the lines keep that pattern
\* over every call that is not a sendMessage or a recvMessage.
C37_SleepModeStays ==
    [][ /\ (/\ call'.op \in CommandOps
            /\ \E j \in 1..Len(log') : log'[j].ev = "write" /\ log'[j].by = "sendCommand")
               => (M0' = 1 /\ M1' = 1)
        /\ (M0 = 1 /\ M1 = 1 /\ call'.op \notin {"sendMessage", "recvMessage"})
               => (M0' = 1 /\ M1' = 1) ]_vars

C37_Witness ==
    /\ call.op = "reset"
    /\ ResetFrameWritten
    /\ M0 = 1 /\ M1 = 1

\* C38: on a driver that was started and whose serial link is released,
\* every call other than start makes no write and no read, and every call
\* other than start and reset returns NOK.
C38_ReleasedLinkUnused ==
    [][ (M0 # NoPin /\ serdev # "open" /\ call'.op # "start") =>
            /\ \A j \in 1..Len(log') : log'[j].ev \notin {"write", "read"}
            /\ call'.op # "reset" => ret' = NOK ]_vars

C38_Witness ==
    /\ call.op = "sendMessage" /\ call.payload.isdict
    /\ M0 # NoPin /\ serdev = "deleted"
    /\ IdlePolls # {}
    /\ ret = NOK

====
